---- MODULE Spec2Model ----
(***************************************************************************)
(* Conversation state machine of src/script.js: the in-memory chat map,    *)
(* its write-through copy in localStorage, the shared AbortController and  *)
(* the suspended sendMessage invocations.                                  *)
(*                                                                         *)
(* Representation.                                                         *)
(*  - A text is a sequence of tokens; a token is a string.  The token " "  *)
(*    is a whitespace character, so that String.prototype.trim can be      *)
(*    computed.  Fixed texts of the program are one-token sequences.       *)
(*  - The chat id 'chat-' + Date.now() is represented by the number        *)
(*    Date.now() returned, the typing id 'typing-' + Date.now() likewise.  *)
(*  - promptInput.value, which the user types or dictates between the     *)
(*    handlers, is an input of sendMessage.                                *)
(*  - clock is the last value Date.now() returned.  A handler reads the    *)
(*    clock once, and reads either the value read last or the next one.    *)
(*  - JavaScript runs one task at a time and drains the microtask queue    *)
(*    before the next task.  A promise rejected by abort() resumes its     *)
(*    sendMessage in a microtask: such a call has pc = "rejected", and no  *)
(*    task (handler or network event) runs while one exists.               *)
(*  - The text JSON.stringify writes is the sequence of the map's entries  *)
(*    in key order, each value encoded field by field in the order of the  *)
(*    object literal; a text JSON.parse rejects is an entry cut short.     *)
(*  - Fields of a call frame marked "history" record what happened to the  *)
(*    call; the program does not read them.                                *)
(***************************************************************************)
EXTENDS Integers, Sequences, FiniteSets, TLC

VARIABLES
    clock,            \* the value Date.now() returned last
    currentFile,      \* currentFile (line 14)
    currentChatId,    \* currentChatId (line 15)
    chats,            \* chats (line 16): id -> conversation
    localStorage,     \* localStorage: key -> stored value
    abortController,  \* abortController (line 17), see newAbortController
    typing,           \* ids of the typing indicator elements in chatContainer, document order
    calls,            \* the suspended sendMessage invocations: call number -> frame
    ready,            \* the DOMContentLoaded handler ran to its end (setupEvents attached
                      \*   the listeners); FALSE when it stopped on an exception
    sent,             \* how many sendMessage invocations passed the validation gate
    lastOp,           \* history: what ran last: "init", "sendMessage", "startNewChat",
                      \*   "reply" (a call returned its reply), "apiError", "typeError"
                      \*   (a call failed), "cancelledAtFetch", "cancelledAtJson" (an
                      \*   aborted call resumed), "other"
    lastValue         \* history: the promptInput.value the last sendMessage read

vars == <<clock, currentFile, currentChatId, chats, localStorage,
          abortController, typing, calls, ready, sent, lastOp, lastValue>>

----------------------------------------------------------------------------
\* Bounds of the model.
MaxClock == 1      \* Date.now() ranges over 0..MaxClock
MaxCalls == 2      \* sendMessage invocations that pass the gate

\* what promptInput.value may hold: nothing, white space only, a padded text
Inputs == {<<>>, <<" ">>, <<" ", "a", " ">>}
Replies == {<<"4">>}
Statuses == {200, 500}

null == [name |-> "", size |-> 0, type |-> "", url |-> ""]
Files == {[name |-> "a.png", size |-> 1, type |-> "image/png", url |-> "blob:1"]}

GreetingText == <<"Hello! I'm PDB AI, your advanced assistant. How can I help you today?">>
ErrorText == <<"Sorry, I encountered an error. Please try again.">>
AbortError == <<"AbortError">>
TypeError == <<"TypeError">>
NoError == <<>>

----------------------------------------------------------------------------
\* Pure helpers.

RECURSIVE trimStart(_)
trimStart(s) == IF s # <<>> /\ Head(s) = " " THEN trimStart(Tail(s)) ELSE s

RECURSIVE trimEnd(_)
trimEnd(s) ==
    IF s # <<>> /\ s[Len(s)] = " " THEN trimEnd(SubSeq(s, 1, Len(s) - 1)) ELSE s

\* a gate that tests the untrimmed value
noTrim(s) == s

\* String.prototype.trim
trim(s) == trimEnd(trimStart(s))

\* the validation gate of sendMessage: TRUE when the handler returns at once
gate(text, file) == text = <<>> /\ file = null

\* the keys of the chat map in the order of their insertion (ascending time)
RECURSIVE keys(_)
keys(ids) ==
    IF ids = {} THEN <<>>
    ELSE LET m == CHOOSE x \in ids : \A y \in ids : x <= y
         IN  <<m>> \o keys(ids \ {m})

encodeFile(f) == IF f = null THEN <<>> ELSE <<f.name, f.size, f.type, f.url>>

decodeFile(e) ==
    IF e = <<>> THEN null
    ELSE [name |-> e[1], size |-> e[2], type |-> e[3], url |-> e[4]]

\* an encoding that loses the attachment
encodeMessageNoFile(m) == <<m.sender, m.text, <<>>, m.timestamp>>

encodeMessage(m) == <<m.sender, m.text, encodeFile(m.file), m.timestamp>>

decodeMessage(e) ==
    [sender |-> e[1], text |-> e[2], file |-> decodeFile(e[3]), timestamp |-> e[4]]

encodeChat(c) ==
    <<c.id, c.createdAt, c.updatedAt,
      [i \in 1..Len(c.messages) |-> encodeMessage(c.messages[i])]>>

decodeChat(e) ==
    [id |-> e[1], createdAt |-> e[2], updatedAt |-> e[3],
     messages |-> [i \in 1..Len(e[4]) |-> decodeMessage(e[4][i])]]

\* JSON.stringify of the chat map
JSONstringify(ch) ==
    LET ks == keys(DOMAIN ch)
    IN  [i \in 1..Len(ks) |-> <<ks[i], encodeChat(ch[ks[i]])>>]

\* JSON.parse accepts the text (it throws a SyntaxError otherwise)
parses(data) == \A i \in 1..Len(data) : Len(data[i]) = 2

\* JSON.parse of a stored chat map
JSONparse(data) ==
    [id \in {data[i][1] : i \in 1..Len(data)} |->
        decodeChat(data[CHOOSE i \in 1..Len(data) : data[i][1] = id][2])]

\* localStorage.setItem
setItem(ls, key, value) == (key :> value) @@ ls

getCurrentChatId(ls, now) ==
    IF "currentChatId" \in DOMAIN ls
    THEN [id |-> ls["currentChatId"], ls |-> ls]
    ELSE [id |-> now, ls |-> setItem(ls, "currentChatId", now)]

loadAllChats(ls) ==
    IF "pdb-ai-chats" \in DOMAIN ls THEN JSONparse(ls["pdb-ai-chats"]) ELSE <<>>

\* a save that leaves the pointer to the current chat as it was
saveChatsOnly(ls, ch, cur) == setItem(ls, "pdb-ai-chats", JSONstringify(ch))

saveAllChats(ls, ch, cur) ==
    setItem(setItem(ls, "pdb-ai-chats", JSONstringify(ch)), "currentChatId", cur)

\* a new conversation without the seeded greeting
newChatEmpty(id, now) ==
    [id |-> id, createdAt |-> now, updatedAt |-> now, messages |-> <<>>]

\* the conversation literal of startNewChat (and of initializeChat)
newChat(id, now) ==
    [id |-> id, createdAt |-> now, updatedAt |-> now,
     messages |-> <<[sender |-> "ai", text |-> GreetingText, file |-> null,
                     timestamp |-> now]>>]

\* an initializeChat without the test of line 24
initializeChatAlways(ch, cur, ls, now) ==
    LET ch2 == (cur :> newChat(cur, now)) @@ ch
    IN  [chats |-> ch2, ls |-> saveAllChats(ls, ch2, cur)]

\* initializeChat: the chat map and the store it leaves
initializeChat(ch, cur, ls, now) ==
    IF cur \notin DOMAIN ch
    THEN LET ch2 == (cur :> newChat(cur, now)) @@ ch
         IN  [chats |-> ch2, ls |-> saveAllChats(ls, ch2, cur)]
    ELSE [chats |-> ch, ls |-> ls]

\* line 16 throws: the stored text is there and JSON.parse rejects it
loadThrows(ls) == "pdb-ai-chats" \in DOMAIN ls /\ ~parses(ls["pdb-ai-chats"])

\* lines 15-21, the start of the page with the store ls at time now: what
\* currentChatId, chats and localStorage are when the handler ends or stops
launch(ls, now) ==
    LET got == getCurrentChatId(ls, now)
    IN  IF loadThrows(got.ls)
        THEN [currentChatId |-> got.id, chats |-> <<>>, localStorage |-> got.ls,
              ready |-> FALSE]
        ELSE LET ini == initializeChat(loadAllChats(got.ls), got.id, got.ls, now)
             IN  [currentChatId |-> got.id, chats |-> ini.chats,
                  localStorage |-> ini.ls, ready |-> TRUE]

\* the id startNewChat gives the new chat
newChatId(now) == now

\* a user message that drops the attachment
userMsgNoFile(text, file, now) ==
    [sender |-> "user", text |-> text, file |-> null, timestamp |-> now]

userMsg(text, file, now) ==
    [sender |-> "user", text |-> text, file |-> file, timestamp |-> now]

aiMsg(responseText, now) ==
    [sender |-> "ai", text |-> responseText, file |-> null, timestamp |-> now]

\* a catch block that shows the error it caught
catchMsgRaw(err, now) ==
    [sender |-> "ai", text |-> err, file |-> null, timestamp |-> now]

\* the message the catch block of sendMessage appends
catchMsg(err, now) ==
    [sender |-> "ai", text |-> ErrorText, file |-> null, timestamp |-> now]

\* `${m.sender}: ${m.text}`
promptLine(m) == <<m.sender, ": ">> \o m.text

\* Array.prototype.join('\n')
RECURSIVE join(_)
join(lines) ==
    IF lines = <<>> THEN <<>>
    ELSE IF Len(lines) = 1 THEN lines[1]
    ELSE lines[1] \o <<"\n">> \o join(Tail(lines))

\* a prompt built from the newest message alone
promptLastOnly(messages) == promptLine(messages[Len(messages)])

\* line 101: the prompt getAIResponse sends
prompt(messages) == join([i \in 1..Len(messages) |-> promptLine(messages[i])])

\* an append that leaves updatedAt as it was
addMessageNoStamp(ch, cur, msg, now) ==
    [ch EXCEPT ![cur].messages = Append(@, msg)]

\* addMessage: push to the CURRENT chat and stamp updatedAt
addMessage(ch, cur, msg, now) ==
    [ch EXCEPT ![cur].messages = Append(@, msg), ![cur].updatedAt = now]

showTypingIndicator(t, id) == Append(t, id)

RECURSIVE removeFirst(_, _)
removeFirst(t, id) ==
    IF t = <<>> THEN <<>>
    ELSE IF Head(t) = id THEN Tail(t)
    ELSE <<Head(t)>> \o removeFirst(Tail(t), id)

\* a removal that clears every indicator of the container
removeEveryIndicator(t, id) == <<>>

\* getElementById(id) finds the first element with that id
removeTypingIndicator(t, id) == removeFirst(t, id)

\* An AbortController is named by the number of the call whose fetch was given
\* its signal; 0 names a controller whose signal no fetch was given (the one
\* of line 17 and those resetInput makes).  The signal's aborted flag is kept
\* in the frame of that call.
newAbortController(k) == k

\* a handler that replaces the controller without aborting it
abortNothing(cs, ctrl) == cs

\* AbortController.abort: the signal of controller ctrl becomes aborted
abort(cs, ctrl) ==
    [k \in DOMAIN cs |->
        IF cs[k].signal.ctrl = ctrl
        THEN [cs[k] EXCEPT !.signal.aborted = TRUE] ELSE cs[k]]

\* an abort that no longer reaches a response whose headers have arrived
abortFetchHeadersOnly(c, by) ==
    IF c.pc = "fetch" /\ c.signal.aborted
    THEN [c EXCEPT !.pc = "rejected", !.err = AbortError,
                   !.cancelledAt = c.pc, !.cancelledBy = by]
    ELSE c

\* what an aborted signal does to its fetch: a call waiting for the response
\* or for its body is rejected with an AbortError
abortFetch(c, by) ==
    IF c.pc \in {"fetch", "json"} /\ c.signal.aborted
    THEN [c EXCEPT !.pc = "rejected", !.err = AbortError,
                   !.cancelledAt = c.pc, !.cancelledBy = by]
    ELSE c

abortFetches(cs, by) == [k \in DOMAIN cs |-> abortFetch(cs[k], by)]

\* `new Error(`API failed: ${res.status}`)`
apiError(status) == <<"API failed: ", ToString(status)>>

\* the values Date.now() may return after it returned t
Now(t) == {n \in {t, t + 1} : n <= MaxClock}

\* no microtask is queued: the event loop may run the next task
Idle == \A k \in DOMAIN calls : calls[k].pc # "rejected"

\* the frame of a sendMessage returns
return(cs, k) == [j \in DOMAIN cs \ {k} |-> cs[j]]

----------------------------------------------------------------------------
Init ==
    /\ clock = 0
    /\ LET l == launch(<<>>, 0)
       IN  /\ currentChatId = l.currentChatId
           /\ chats = l.chats
           /\ localStorage = l.localStorage
           /\ ready = l.ready
    /\ currentFile = null
    /\ abortController = newAbortController(0)
    /\ typing = <<>>
    /\ calls = <<>>
    /\ sent = 0
    /\ lastOp = "init"
    /\ lastValue = <<>>

handleFileUpload ==
    /\ ready
    /\ Idle
    /\ \E f \in Files : currentFile' = f
    /\ lastOp' = "other"
    /\ lastValue' = <<>>
    /\ UNCHANGED ready
    /\ UNCHANGED <<clock, currentChatId, chats, localStorage,
                   abortController, typing, calls, sent>>

\* sendMessage up to its first await (the fetch issued by getAIResponse)
sendMessage ==
    /\ ready
    /\ Idle
    /\ lastOp' = "sendMessage"
    /\ UNCHANGED ready
    /\ \E value \in Inputs :
       LET text == trim(value) IN
       /\ lastValue' = value
       /\ IF gate(text, currentFile)
          THEN UNCHANGED <<clock, currentFile, currentChatId, chats,
                           localStorage, abortController, typing, calls, sent>>
          ELSE \E now \in Now(clock) :
            LET k == sent + 1
                msg == userMsg(text, currentFile, now)
                ch == addMessage(chats, currentChatId, msg, now)
                frame == [pc |-> "fetch",
                          signal |-> [ctrl |-> newAbortController(k), aborted |-> FALSE],
                          typingId |-> now,
                          prompt |-> prompt(ch[currentChatId].messages),
                          err |-> NoError,
                          \* history
                          chat |-> currentChatId,
                          userPos |-> Len(ch[currentChatId].messages),
                          cancelledAt |-> "",
                          cancelledBy |-> ""]
            IN  /\ sent < MaxCalls
                /\ sent' = k
                /\ clock' = now
                /\ abortController' = newAbortController(k)
                /\ chats' = ch
                /\ localStorage' = saveAllChats(localStorage, ch, currentChatId)
                /\ currentFile' = null
                /\ typing' = showTypingIndicator(typing, now)
                /\ calls' = (k :> frame)
                            @@ abortFetches(abort(calls, abortController), "sendMessage")
                /\ UNCHANGED currentChatId

\* lines 80-87: the call returned responseText
resume(k, responseText, now) ==
    LET ch == addMessage(chats, currentChatId, aiMsg(responseText, now), now)
    IN  /\ typing' = removeTypingIndicator(typing, calls[k].typingId)
        /\ chats' = ch
        /\ localStorage' = saveAllChats(localStorage, ch, currentChatId)
        /\ calls' = return(calls, k)
        /\ clock' = now
        /\ lastOp' = "reply"

\* lines 88-96: the catch block, entered with err
catch(k, err, now) ==
    LET ch == addMessage(chats, currentChatId, catchMsg(err, now), now)
    IN  /\ typing' = removeTypingIndicator(typing, calls[k].typingId)
        /\ chats' = ch
        /\ localStorage' = saveAllChats(localStorage, ch, currentChatId)
        /\ calls' = return(calls, k)
        /\ clock' = now
        /\ lastOp' = IF err = AbortError
                     THEN IF calls[k].cancelledAt = "json"
                          THEN "cancelledAtJson" ELSE "cancelledAtFetch"
                     ELSE IF err = TypeError THEN "typeError" ELSE "apiError"

\* the response headers arrive: fetch fulfils, line 114 checks res.ok
fetchFulfilled ==
    /\ ready
    /\ Idle
    /\ \E k \in DOMAIN calls : \E status \in Statuses :
        /\ calls[k].pc = "fetch"
        /\ IF status \in 200..299
           THEN /\ calls' = [calls EXCEPT ![k].pc = "json"]
                /\ lastOp' = "other"
                /\ UNCHANGED <<clock, typing, chats, localStorage>>
           ELSE \E now \in Now(clock) : catch(k, apiError(status), now)
    /\ lastValue' = <<>>
    /\ UNCHANGED ready
    /\ UNCHANGED <<currentFile, currentChatId, abortController, sent>>

\* transport failure: fetch rejects with a TypeError
fetchRejected ==
    /\ ready
    /\ Idle
    /\ \E k \in DOMAIN calls : \E now \in Now(clock) :
        /\ calls[k].pc = "fetch"
        /\ catch(k, TypeError, now)
    /\ lastValue' = <<>>
    /\ UNCHANGED ready
    /\ UNCHANGED <<currentFile, currentChatId, abortController, sent>>

\* the body is read and decoded: res.json() fulfils, line 116 picks the reply
jsonFulfilled ==
    /\ ready
    /\ Idle
    /\ \E k \in DOMAIN calls : \E reply \in Replies : \E now \in Now(clock) :
        /\ calls[k].pc = "json"
        /\ resume(k, reply, now)
    /\ lastValue' = <<>>
    /\ UNCHANGED ready
    /\ UNCHANGED <<currentFile, currentChatId, abortController, sent>>

\* the body is no JSON, or holds no candidates[0].content.parts[0].text
jsonRejected ==
    /\ ready
    /\ Idle
    /\ \E k \in DOMAIN calls : \E now \in Now(clock) :
        /\ calls[k].pc = "json"
        /\ catch(k, TypeError, now)
    /\ lastValue' = <<>>
    /\ UNCHANGED ready
    /\ UNCHANGED <<currentFile, currentChatId, abortController, sent>>

\* microtask: the sendMessage whose call abort() rejected resumes in its catch
abortRejection ==
    /\ \E k \in DOMAIN calls : \E now \in Now(clock) :
        /\ calls[k].pc = "rejected"
        /\ catch(k, calls[k].err, now)
    /\ lastValue' = <<>>
    /\ UNCHANGED ready
    /\ UNCHANGED <<currentFile, currentChatId, abortController, sent>>

\* startNewChat with renderChat and resetInput
startNewChat ==
    /\ ready
    /\ Idle
    /\ \E now \in Now(clock) :
       LET id == newChatId(now)
           ch == (id :> newChat(id, now)) @@ chats
       IN  /\ currentChatId' = id
           /\ chats' = ch
           /\ localStorage' = saveAllChats(localStorage, ch, id)
           /\ clock' = now
           /\ typing' = <<>>
           /\ currentFile' = null
           /\ calls' = abortFetches(abort(calls, abortController), "startNewChat")
           /\ abortController' = newAbortController(0)
    /\ lastOp' = "startNewChat"
    /\ lastValue' = <<>>
    /\ UNCHANGED ready
    /\ UNCHANGED sent

\* the page is loaded again: the script starts over with the store as it is
restart ==
    /\ Idle
    /\ \E now \in Now(clock) :
       LET l == launch(localStorage, now)
       IN  /\ currentChatId' = l.currentChatId
           /\ chats' = l.chats
           /\ localStorage' = l.localStorage
           /\ ready' = l.ready
           /\ clock' = now
    /\ currentFile' = null
    /\ abortController' = newAbortController(0)
    /\ typing' = <<>>
    /\ calls' = <<>>
    /\ lastOp' = "restart"
    /\ lastValue' = <<>>
    /\ UNCHANGED sent

Next ==
    \/ handleFileUpload
    \/ sendMessage
    \/ fetchFulfilled
    \/ fetchRejected
    \/ jsonFulfilled
    \/ jsonRejected
    \/ abortRejection
    \/ startNewChat

Spec == Init /\ [][Next]_vars

\* the same with reloads of the page
NextR ==
    \/ Next
    \/ restart

SpecR == Init /\ [][NextR]_vars

\* The network answers every fetch it was given and the browser reads every
\* body, or fails; a promise that abort() rejected is resumed by the event
\* loop before the next task.
Fairness ==
    /\ WF_vars(fetchFulfilled \/ fetchRejected)
    /\ WF_vars(jsonFulfilled \/ jsonRejected)
    /\ WF_vars(abortRejection)

SpecFair == Init /\ [][Next]_vars /\ Fairness

\* The store is full: localStorage.setItem throws a QuotaExceededError, the
\* store stays as it was, and the handler stops where saveAllChats was called.

\* sendMessage: the user message is pushed (line 120), the save throws
\* (line 302), and lines 71-80 never run: no reset of the input, no typing
\* indicator, no fetch
sendMessageStoreFull ==
    /\ ready
    /\ Idle
    /\ lastOp' = "storeFull"
    /\ \E value \in Inputs : \E now \in Now(clock) :
       LET text == trim(value)
           msg == userMsg(text, currentFile, now)
       IN  /\ ~gate(text, currentFile)
           /\ sent < MaxCalls
           /\ sent' = sent + 1
           /\ lastValue' = value
           /\ clock' = now
           /\ abortController' = newAbortController(0)
           /\ chats' = addMessage(chats, currentChatId, msg, now)
           /\ calls' = abortFetches(abort(calls, abortController), "sendMessage")
    /\ UNCHANGED <<ready, currentFile, currentChatId, localStorage, typing>>

\* lines 88-96 with a full store: the error message is pushed, the save throws
catchStoreFull(k, err, now) ==
    /\ typing' = removeTypingIndicator(typing, calls[k].typingId)
    /\ chats' = addMessage(chats, currentChatId, catchMsg(err, now), now)
    /\ calls' = return(calls, k)
    /\ clock' = now
    /\ lastOp' = "storeFull"
    /\ UNCHANGED localStorage

\* lines 80-96 with a full store: the reply is pushed, the save of line 87
\* throws inside the try block, and the catch block pushes the error message
resumeStoreFull(k, responseText, now) ==
    /\ typing' = removeTypingIndicator(
                     removeTypingIndicator(typing, calls[k].typingId),
                     calls[k].typingId)
    /\ chats' = addMessage(
                    addMessage(chats, currentChatId, aiMsg(responseText, now), now),
                    currentChatId, catchMsg(<<"QuotaExceededError">>, now), now)
    /\ calls' = return(calls, k)
    /\ clock' = now
    /\ lastOp' = "storeFull"
    /\ UNCHANGED localStorage

\* a pending call settles (response not ok, transport failure, body read or
\* not readable) while the store is full
settleStoreFull ==
    /\ ready
    /\ Idle
    /\ \E k \in DOMAIN calls : \E now \in Now(clock) :
        \/ /\ calls[k].pc = "fetch"
           /\ \E err \in {TypeError} \cup {apiError(st) : st \in Statuses \ (200..299)} :
                 catchStoreFull(k, err, now)
        \/ /\ calls[k].pc = "json"
           /\ \/ \E reply \in Replies : resumeStoreFull(k, reply, now)
              \/ catchStoreFull(k, TypeError, now)
    /\ lastValue' = <<>>
    /\ UNCHANGED <<ready, currentFile, currentChatId, abortController, sent>>

\* the microtask of an aborted call while the store is full
abortRejectionStoreFull ==
    /\ \E k \in DOMAIN calls : \E now \in Now(clock) :
        /\ calls[k].pc = "rejected"
        /\ catchStoreFull(k, calls[k].err, now)
    /\ lastValue' = <<>>
    /\ UNCHANGED <<ready, currentFile, currentChatId, abortController, sent>>

\* startNewChat: the save of line 270 throws, renderChat and resetInput
\* never run
startNewChatStoreFull ==
    /\ ready
    /\ Idle
    /\ \E now \in Now(clock) :
       LET id == newChatId(now)
       IN  /\ currentChatId' = id
           /\ chats' = (id :> newChat(id, now)) @@ chats
           /\ clock' = now
    /\ lastOp' = "storeFull"
    /\ lastValue' = <<>>
    /\ UNCHANGED <<ready, currentFile, localStorage, abortController, typing,
                   calls, sent>>

NextQ ==
    \/ Next
    \/ sendMessageStoreFull
    \/ settleStoreFull
    \/ abortRejectionStoreFull
    \/ startNewChatStoreFull

\* the handlers with a store whose writes may throw
SpecQ == Init /\ [][NextQ]_vars

\* A text of the key pdb-ai-chats that JSON.parse rejects: an entry cut short.
Malformed == <<<<0>>>>

\* what the store may hold when the page is first opened: nothing, or a
\* malformed text left under pdb-ai-chats
Stores == { <<>>, setItem(<<>>, "pdb-ai-chats", Malformed) }

InitM ==
    /\ clock = 0
    /\ \E ls \in Stores :
       LET l == launch(ls, 0)
       IN  /\ currentChatId = l.currentChatId
           /\ chats = l.chats
           /\ localStorage = l.localStorage
           /\ ready = l.ready
    /\ currentFile = null
    /\ abortController = newAbortController(0)
    /\ typing = <<>>
    /\ calls = <<>>
    /\ sent = 0
    /\ lastOp = "init"
    /\ lastValue = <<>>

\* the page opened on any of these stores, and loaded again at any time
SpecM == InitM /\ [][NextR]_vars

----------------------------------------------------------------------------
\* Vocabulary of the properties.

IsPrefix(s, t) == Len(s) <= Len(t) /\ SubSeq(t, 1, Len(s)) = s

\* the call k returns in this step
Returns(k) == k \in DOMAIN calls /\ k \notin DOMAIN calls'

\* a value that is empty or holds white space only
Blank(v) == \A i \in 1..Len(v) : v[i] = " "

\* this step is a sendMessage that read a text or had a file attached
Submits == lastOp' = "sendMessage" /\ ~(Blank(lastValue') /\ currentFile = null)

\* this step appends exactly the message m to chat id and touches no other message
AppendsOnly(id, m) ==
    /\ DOMAIN chats' = DOMAIN chats
    /\ id \in DOMAIN chats
    /\ chats'[id].messages = Append(chats[id].messages, m)
    /\ \A j \in DOMAIN chats \ {id} : chats'[j] = chats[j]

\* the texts of the errors the calls can throw
RawErrors == {apiError(st) : st \in Statuses} \cup {TypeError, AbortError}

Pending(k) == calls[k].pc \in {"fetch", "json"}

----------------------------------------------------------------------------
\* C1: when a second sendMessage supersedes a pending one, the superseded call,
\* whenever it settles, appends no message and changes nothing of the
\* conversations or the store.
C1_SupersededCallChangesNothing ==
    [][\A k \in DOMAIN calls :
          (calls[k].cancelledBy = "sendMessage" /\ Returns(k))
          => (chats' = chats /\ localStorage' = localStorage)]_vars

\* C2: a send cancelled by startNewChat appends no message to any conversation,
\* old or new, when it settles.
C2_CancelledByNewChatChangesNothing ==
    [][\A k \in DOMAIN calls :
          (calls[k].cancelledBy = "startNewChat" /\ Returns(k))
          => (chats' = chats /\ localStorage' = localStorage)]_vars

\* C3: a call whose signal was aborted, before the headers or between the
\* headers and the decoded body, never appends a reply text to any conversation.
C3_CancelledReplyNeverAppended ==
    [][\A k \in DOMAIN calls :
          (calls[k].signal.aborted /\ Returns(k))
          => \A id \in DOMAIN chats' :
                \A i \in 1..Len(chats'[id].messages) :
                    (id \in DOMAIN chats /\ i <= Len(chats[id].messages))
                    \/ chats'[id].messages[i].text \notin Replies]_vars

\* a call aborted between the headers and the body has resumed, and the chat
\* it resumed in ends with the error message, not with a reply
C3_Witness ==
    /\ lastOp = "cancelledAtJson"
    /\ chats[currentChatId].messages[Len(chats[currentChatId].messages)].text = ErrorText

\* C4: at most one call is pending with a signal that is not aborted, and the
\* signal of every call started before the current controller was made is aborted.
C4_SingleFlight ==
    /\ Cardinality({k \in DOMAIN calls : Pending(k) /\ ~calls[k].signal.aborted}) <= 1
    /\ \A k \in DOMAIN calls :
          calls[k].signal.ctrl # abortController => calls[k].signal.aborted
    /\ \A k \in DOMAIN calls : calls[k].signal.aborted => ~Pending(k)

\* a new call is pending while the call it superseded has not resumed yet
C4_Witness ==
    \E k, j \in DOMAIN calls :
        /\ Pending(k) /\ ~calls[k].signal.aborted
        /\ calls[j].pc = "rejected" /\ calls[j].signal.aborted

\* C5: a sendMessage that passes the gate appends the user message (trimmed
\* text and the attached file) to the current chat and issues one call; when
\* that call, not aborted, returns its reply, one assistant message with the
\* reply text is appended to the same chat, after the user message; a call is
\* never issued again.
C5_SubmitThenReply ==
    [][/\ Submits =>
            /\ AppendsOnly(currentChatId,
                   [sender |-> "user", text |-> trim(lastValue'),
                    file |-> currentFile, timestamp |-> clock'])
            /\ DOMAIN calls' \ DOMAIN calls = {sent'}
            /\ calls'[sent'].pc = "fetch"
            /\ calls'[sent'].chat = currentChatId
            /\ calls'[sent'].userPos = Len(chats'[currentChatId].messages)
       /\ ~Submits => DOMAIN calls' \subseteq DOMAIN calls
       /\ \A k \in DOMAIN calls :
            /\ k \in DOMAIN calls' => (calls[k].pc # "fetch" => calls'[k].pc # "fetch")
            /\ (Returns(k) /\ lastOp' = "reply") =>
                  /\ calls[k].chat = currentChatId
                  /\ \E reply \in Replies :
                        AppendsOnly(calls[k].chat,
                            [sender |-> "ai", text |-> reply, file |-> null,
                             timestamp |-> clock'])
                  /\ chats[calls[k].chat].messages[calls[k].userPos].sender = "user"]_vars

\* the chat holds the greeting, the user message with its file, and the reply
C5_Witness ==
    /\ lastOp = "reply"
    /\ Len(chats[currentChatId].messages) = 3
    /\ chats[currentChatId].messages[2].sender = "user"
    /\ chats[currentChatId].messages[2].file \in Files
    /\ chats[currentChatId].messages[3].text \in Replies

\* C6: when a call that was not aborted fails (transport failure, status that
\* is not ok, undecodable body), exactly one assistant message with the fixed
\* error text is appended to its chat, and no message ever carries the text of
\* a thrown error.
C6_GenericErrorOnly ==
    /\ [](\A id \in DOMAIN chats : \A i \in 1..Len(chats[id].messages) :
             chats[id].messages[i].text \notin RawErrors)
    /\ [][\A k \in DOMAIN calls :
             (Returns(k) /\ lastOp' \in {"apiError", "typeError"}) =>
                AppendsOnly(calls[k].chat,
                    [sender |-> "ai", text |-> ErrorText, file |-> null,
                     timestamp |-> clock'])]_vars

\* a call failed with status 500 and its chat ends with the fixed error text
C6_Witness ==
    /\ lastOp = "apiError"
    /\ chats[currentChatId].messages[Len(chats[currentChatId].messages)].text = ErrorText

\* C7: a sendMessage that reads an empty or white-space-only value with no file
\* attached changes nothing: no message, no store write, no call, no abort of
\* the pending call, no change to the typing indicators.
C7_BlankSubmitIsNoop ==
    [][(lastOp' = "sendMessage" /\ Blank(lastValue') /\ currentFile = null)
         => UNCHANGED <<clock, currentFile, currentChatId, chats, localStorage,
                        abortController, typing, calls, sent>>]_vars

\* a white-space-only submit ran while a call was waiting for its body, and
\* the call and its typing indicator are still there
C7_Witness ==
    /\ lastOp = "sendMessage"
    /\ lastValue = <<" ">>
    /\ \E k \in DOMAIN calls :
          /\ calls[k].pc = "json" /\ ~calls[k].signal.aborted
          /\ calls[k].typingId \in {typing[i] : i \in 1..Len(typing)}

\* C8: every existing conversation stays, its messages before a step are a
\* prefix of its messages after it, and a sendMessage that passes the gate
\* makes the current conversation strictly longer.
C8_AppendOnly ==
    [][/\ \A id \in DOMAIN chats :
             /\ id \in DOMAIN chats'
             /\ IsPrefix(chats[id].messages, chats'[id].messages)
       /\ Submits =>
             Len(chats'[currentChatId].messages) > Len(chats[currentChatId].messages)]_vars

\* C9: the id startNewChat generates differs from the id of every conversation
\* created before (the one of first launch included).
C9_FreshId ==
    [][lastOp' = "startNewChat" => currentChatId' \notin DOMAIN chats]_vars

\* C10: every conversation starts with the seeded greeting, and the
\* conversation just created (at launch or by startNewChat) holds exactly that
\* message and is the current one.
C10_GreetingFirst ==
    /\ currentChatId \in DOMAIN chats
    /\ \A id \in DOMAIN chats :
          /\ chats[id].id = id
          /\ Len(chats[id].messages) >= 1
          /\ chats[id].messages[1].sender = "ai"
          /\ chats[id].messages[1].text = GreetingText
    /\ lastOp \in {"init", "startNewChat"} => Len(chats[currentChatId].messages) = 1

\* startNewChat made a second conversation beside one that has grown
C10_Witness ==
    /\ lastOp = "startNewChat"
    /\ \E id \in DOMAIN chats : id # currentChatId /\ Len(chats[id].messages) > 1

----------------------------------------------------------------------------
\* C11: write-through.  Whenever the page is up, the stored text is the
\* encoding of the chat map in memory and the stored pointer is the current id.
C11_WriteThrough ==
    ready =>
        /\ DOMAIN localStorage = {"pdb-ai-chats", "currentChatId"}
        /\ localStorage["pdb-ai-chats"] = JSONstringify(chats)
        /\ localStorage["currentChatId"] = currentChatId

\* a reply was appended in a second conversation, and the store holds both
C11_Witness ==
    /\ lastOp = "reply"
    /\ Cardinality(DOMAIN chats) = 2
    /\ Len(localStorage["pdb-ai-chats"]) = 2
    /\ Len(chats[currentChatId].messages) = 3

\* C12: round trip.  Saving the chat map and loading it again gives the same
\* map (ids, timestamps, message order, texts, files) and the same current id;
\* a reload of the page therefore changes neither.
C12_RoundTrip ==
    /\ [](ready =>
            /\ JSONparse(JSONstringify(chats)) = chats
            /\ LET ls == saveAllChats(<<>>, chats, currentChatId)
               IN  /\ loadAllChats(ls) = chats
                   /\ getCurrentChatId(ls, clock).id = currentChatId)
    /\ [][(ready /\ lastOp' = "restart")
            => (ready' /\ chats' = chats /\ currentChatId' = currentChatId)]_vars

\* the page was reloaded with two conversations, one holding a message with a file
C12_Witness ==
    /\ lastOp = "restart"
    /\ ready
    /\ Cardinality(DOMAIN chats) = 2
    /\ \E id \in DOMAIN chats : \E i \in 1..Len(chats[id].messages) :
          chats[id].messages[i].file \in Files

\* C15: initializeChat is idempotent.  When the current id has a conversation,
\* running it again changes neither the map nor the store; for an id without a
\* conversation it adds exactly one, holding the greeting alone.
C15_EnsureIdempotent ==
    /\ [](ready =>
            /\ initializeChat(chats, currentChatId, localStorage, clock)
                  = [chats |-> chats, ls |-> localStorage]
            /\ \A id \in (0..MaxClock + 1) \ DOMAIN chats :
                  LET r == initializeChat(chats, id, localStorage, clock)
                  IN  /\ DOMAIN r.chats = DOMAIN chats \cup {id}
                      /\ \A j \in DOMAIN chats : r.chats[j] = chats[j]
                      /\ Len(r.chats[id].messages) = 1
                      /\ r.chats[id].messages[1].text = GreetingText)
    /\ [][(ready /\ lastOp' = "restart")
            => (chats' = loadAllChats(localStorage) /\ localStorage' = localStorage)]_vars

\* the page was reloaded on a conversation that had grown
C15_Witness ==
    /\ lastOp = "restart"
    /\ ready
    /\ Len(chats[currentChatId].messages) > 1
    /\ chats[currentChatId].updatedAt < clock

----------------------------------------------------------------------------
\* the lines of a prompt: what stands between its line breaks
RECURSIVE Lines(_)
Lines(t) ==
    IF \A i \in 1..Len(t) : t[i] # "\n" THEN <<t>>
    ELSE LET n == CHOOSE i \in 1..Len(t) :
                     t[i] = "\n" /\ \A j \in 1..(i - 1) : t[j] # "\n"
         IN  <<SubSeq(t, 1, n - 1)>> \o Lines(SubSeq(t, n + 1, Len(t)))

\* C13: the prompt a sendMessage sends has one line "<sender>: <text>" for
\* every message of the current conversation as it is right after the user
\* message was appended, in message order, the user message last.
C13_PromptIsWholeHistory ==
    [][Submits =>
          LET msgs == chats'[currentChatId].messages
              ls == Lines(calls'[sent'].prompt)
          IN  /\ Len(ls) = Len(msgs)
              /\ \A i \in 1..Len(msgs) :
                    ls[i] = <<msgs[i].sender, ": ">> \o msgs[i].text
              /\ ls[Len(ls)] = <<"user", ": ">> \o trim(lastValue')]_vars

\* a second send in a conversation is waiting with a prompt of four lines
C13_Witness ==
    \E k \in DOMAIN calls :
        /\ calls[k].pc = "fetch"
        /\ Len(Lines(calls[k].prompt)) = 4
        /\ Len(chats[currentChatId].messages) = 4

----------------------------------------------------------------------------
\* C14: a start of the page does not crash on malformed stored data: when
\* the start-up handler has run (first launch or reload), initialisation is
\* finished, the current conversation exists and the operations are usable.
C14_StartupFinishes ==
    lastOp \in {"init", "restart"} =>
        /\ ready
        /\ currentChatId \in DOMAIN chats

----------------------------------------------------------------------------
\* C20: the pointer stored under currentChatId names a conversation of the
\* mapping stored under pdb-ai-chats, in every state after a start of the
\* page, a start that stopped at the load included.
C20_PointerNamesStoredChat ==
    "currentChatId" \in DOMAIN localStorage =>
        /\ "pdb-ai-chats" \in DOMAIN localStorage
        /\ parses(localStorage["pdb-ai-chats"])
        /\ localStorage["currentChatId"]
               \in DOMAIN JSONparse(localStorage["pdb-ai-chats"])

----------------------------------------------------------------------------
\* this step appends one message to chat id
Appends(id) ==
    /\ id \in DOMAIN chats
    /\ id \in DOMAIN chats'
    /\ Len(chats'[id].messages) = Len(chats[id].messages) + 1
    /\ IsPrefix(chats[id].messages, chats'[id].messages)

\* C17: every append of a message stamps the updatedAt of its conversation
\* with the time of the append: the new value is not earlier than the old
\* one, than createdAt, or than the timestamp of the appended message; the
\* append of the user message and the append of the reply both do so.  Time
\* is taken not to run backwards between two readings of Date.
C17_UpdatedAtAdvances ==
    /\ [][\A id \in DOMAIN chats :
             Appends(id) =>
                LET c == chats[id]
                    d == chats'[id]
                IN  /\ d.updatedAt = clock'
                    /\ d.updatedAt >= c.updatedAt
                    /\ d.updatedAt >= d.createdAt
                    /\ d.updatedAt >= d.messages[Len(d.messages)].timestamp
                    /\ d.createdAt = c.createdAt]_vars
    /\ [][(Submits \/ lastOp' = "reply") => Appends(currentChatId)]_vars

\* a reply was appended later than its conversation was made: updatedAt has
\* moved past createdAt
C17_Witness ==
    /\ lastOp = "reply"
    /\ Len(chats[currentChatId].messages) = 3
    /\ chats[currentChatId].messages[3].sender = "ai"
    /\ chats[currentChatId].updatedAt > chats[currentChatId].createdAt

----------------------------------------------------------------------------
\* C18: the assistant message a call brings (reply or error message) goes to
\* the conversation its user message went to, also when startNewChat has made
\* another conversation current in between: a returning call changes no
\* other conversation.
C18_OutcomeGoesToOwnChat ==
    [][\A k \in DOMAIN calls :
          Returns(k) =>
             \A id \in DOMAIN chats \ {calls[k].chat} :
                 id \in DOMAIN chats' /\ chats'[id] = chats[id]]_vars

----------------------------------------------------------------------------
\* C19: a sendMessage brings at most one assistant message into the
\* conversations in memory, a reply or an error message and never both,
\* whatever the call and the writes to the store do: the step in which a
\* call returns appends at most one message.
C19_AtMostOneOutcome ==
    [][\A k \in DOMAIN calls :
          Returns(k) =>
             /\ currentChatId' = currentChatId
             /\ Len(chats'[currentChatId].messages)
                   <= Len(chats[currentChatId].messages) + 1]_vars

----------------------------------------------------------------------------
\* how the sendMessage whose call returns in this step ends
Completed == lastOp' = "reply"
Failed == lastOp' \in {"typeError", "apiError"}
Superseded == lastOp' \in {"cancelledAtFetch", "cancelledAtJson"}

\* C16: a sendMessage that passes the gate is Sending at once (its call is
\* waiting for the fetch); if the network settles every call and the event
\* loop resumes every aborted one, every Sending call ends, once, as exactly
\* one of Completed, Failed or Superseded, and a cancelled call ends as
\* Superseded; the typing indicator of the call in flight is shown until that
\* call ends (the end of an earlier, superseded call does not remove it), and
\* with no call in flight no indicator is left.
C16_SendLifecycle ==
    /\ [][Submits => (sent' \in DOMAIN calls' /\ calls'[sent'].pc = "fetch")]_vars
    /\ \A k \in 1..MaxCalls : (k \in DOMAIN calls) ~> (k \notin DOMAIN calls)
    /\ [][\A k \in DOMAIN calls :
             Returns(k) =>
                /\ \/ Completed /\ ~Failed /\ ~Superseded
                   \/ ~Completed /\ Failed /\ ~Superseded
                   \/ ~Completed /\ ~Failed /\ Superseded
                /\ Superseded <=> calls[k].signal.aborted
                /\ \A j \in DOMAIN calls : Returns(j) => j = k]_vars
    /\ [](\A k \in DOMAIN calls :
             Pending(k) => \E i \in 1..Len(typing) : typing[i] = calls[k].typingId)
    /\ [](Idle => Len(typing) = Cardinality({k \in DOMAIN calls : Pending(k)}))
    /\ [](DOMAIN calls = {} => typing = <<>>)

\* a superseded call has just ended while the send that superseded it is in
\* flight with its indicator shown
C16_Witness ==
    /\ lastOp \in {"cancelledAtFetch", "cancelledAtJson"}
    /\ \E k \in DOMAIN calls : Pending(k) /\ typing = <<calls[k].typingId>>

====
